---- MODULE Spec2Model ----
(***************************************************************************)
(* Model of the hub-app-server download counter service                    *)
(* (src/unnamed/part_000: the serverless variant with connectToDatabase).  *)
(*                                                                         *)
(* State: the two MongoDB collections (downloadInfo, totalDownload), the   *)
(* per-process module variable isConnected, and one record per task: the   *)
(* module-level startup call of connectToDatabase of each process and the  *)
(* HTTP request handlers.  A step is one awaited operation together with   *)
(* the synchronous code that follows it up to the next await: JavaScript   *)
(* runs a handler without preemption between two awaits, and MongoDB       *)
(* applies each single-document operation atomically.                      *)
(*                                                                         *)
(* await client.connect() writes nothing the model keeps and its rejection *)
(* is handled like the rejection of the findOne that follows it, so the    *)
(* two awaits are one step (FindCounter).                                  *)
(*                                                                         *)
(* src/unnamed/part_001 runs the same initialization (initializeCounter)    *)
(* once and registers the same handlers only after it has succeeded: its   *)
(* behaviours are those in which requests arrive at connected processes.   *)
(*                                                                         *)
(* Of a download record only appId is kept (userAgent, ip and createdAt    *)
(* are never read back by the service).  result.value of findOneAndUpdate  *)
(* is the document, as in the driver versions the code is written for.     *)
(* task[t].writes is a history field: the writes the task has performed.   *)
(***************************************************************************)
EXTENDS Integers, Sequences, FiniteSets, TLC

\* ---------------------------------------------------------------- bounds
\* Number of HTTP requests that arrive in a behaviour.
MaxRequests == 2
\* Number of records the downloadInfo collection holds before the service starts.
MaxInitLog == 1
\* Number of storage operations that are rejected because the store is unreachable.
MaxOutages == 1

\* ---------------------------------------------------------------- constants
\* The reserved _id of the global counter document.
GLOBAL == "counter"
\* A download record written by POST /totaldownloads carries no appId.
NoApp == "<none>"
\* Values of the :appId route parameter: any string, the reserved one included.
AppIds == {"a", GLOBAL}
\* Application ids proper: every id but the reserved one.
Applications == AppIds \ {GLOBAL}
\* appId of the records present before the service starts.
InitAppIds == {NoApp, "a"}
\* Process instances (serverless instances sharing the database).
Procs == {1, 2}
\* Requests.
Reqs == 1..MaxRequests
StartupTasks == {<<"startup", p>> : p \in Procs}
RequestTasks == {<<"req", i>> : i \in Reqs}
Tasks == StartupTasks \cup RequestTasks

Routes == {"GET /totaldownloads", "GET /totaldownloads/:appId",
           "POST /totaldownloads/:appId", "POST /totaldownloads"}
HasAppId(route) == route \in {"GET /totaldownloads/:appId", "POST /totaldownloads/:appId"}

VARIABLES
    downloadInfo,   \* the downloadInfo collection: sequence of appId (NoApp if none)
    totalDownload,  \* the totalDownload collection: function _id -> count
    isConnected,    \* isConnected of each process
    task,           \* each task's position and locals
    outages         \* storage operations rejected so far

vars == <<downloadInfo, totalDownload, isConnected, task, outages>>

\* ---------------------------------------------------------------- helpers
RECURSIVE SeqsUpTo(_, _)
SeqsUpTo(S, n) ==
    IF n = 0 THEN {<<>>}
    ELSE LET shorter == SeqsUpTo(S, n - 1)
         IN shorter \cup {Append(s, x) : s \in {q \in shorter : Len(q) = n - 1}, x \in S}

\* downloadInfoCollection.countDocuments()
countDocuments == Len(downloadInfo)

\* Number of records of the log carrying appId a.
RECURSIVE CountApp(_, _)
CountApp(log, a) ==
    IF log = <<>> THEN 0
    ELSE (IF Head(log) = a THEN 1 ELSE 0) + CountApp(Tail(log), a)

\* Mutant: the record is written with an upsert keyed on appId, so a second
\* download of the same application adds nothing.
insertRecord_Dedup(appId) ==
    IF \E i \in 1..Len(downloadInfo) : downloadInfo[i] = appId
    THEN downloadInfo ELSE Append(downloadInfo, appId)

\* The downloadInfo collection after insertOne({appId, userAgent, ip,
\* createdAt}): one more document, whatever the collection holds.
insertRecord(appId) == Append(downloadInfo, appId)

\* totalDownloadCollection.findOne({_id: id}) finds a document.
Present(id) == id \in DOMAIN totalDownload

\* The totalDownload collection with document id set to count n.
WithDoc(id, n) == [x \in DOMAIN totalDownload \cup {id} |->
                      IF x = id THEN n ELSE totalDownload[x]]

\* Mutant: the insert is never rejected (a replace or upsert in place of insertOne).
DuplicateKey_Never(id) == FALSE

\* insertOne({_id: id, ...}) is rejected with a duplicate key error: _id is unique.
DuplicateKey(id) == Present(id)

\* Mutant: the counter is seeded with zero, not with the log's record count.
existingCount_Zero == Len(<<>>)

\* The seed connectToDatabase inserts: the result of countDocuments().
existingCount == countDocuments

\* Mutant: the update sets the count ($set: {count: 1}) in place of adding to it.
IncUpsert_Set(id) == WithDoc(id, 1)

\* The collection after { $inc: { count: 1 } } with upsert: true (an absent
\* document is created from the filter and then incremented: count 1).
IncUpsert(id) == WithDoc(id, (IF Present(id) THEN totalDownload[id] ELSE 0) + 1)

\* Mutant: returnDocument "before": the count the document had before the update.
resultValue_Before(id) == IF Present(id) THEN totalDownload[id] ELSE 0

\* result.value.count with returnDocument: "after": the updated document's count.
resultValue(id) == IncUpsert(id)[id]

\* The same update without upsert: an absent document stays absent.
IncNoUpsert(id) == IF Present(id) THEN WithDoc(id, totalDownload[id] + 1)
                   ELSE totalDownload

\* Mutant: an unknown id is reported with a count of one.
totalDownloadCount_DefaultOne(id) == IF Present(id) THEN totalDownload[id] ELSE 1

\* `appCounter ? appCounter.count : 0` of GET /totaldownloads/:appId.
totalDownloadCount(id) == IF Present(id) THEN totalDownload[id] ELSE 0

\* Mutant: find({}) without the filter on the reserved id.
downloadCounts_Unfiltered == [x \in DOMAIN totalDownload |-> totalDownload[x]]

\* The mapping GET /totaldownloads builds from find({_id: {$ne: "counter"}}).
downloadCounts == [x \in DOMAIN totalDownload \ {GLOBAL} |-> totalDownload[x]]

EmptyCollection == [x \in {} |-> 0]

IdleTask == [pc |-> "idle", proc |-> 0, route |-> "", appId |-> NoApp,
             existingCount |-> 0, result |-> 0, status |-> 0, body |-> <<>>,
             writes |-> {}]

Init ==
    /\ downloadInfo \in SeqsUpTo(InitAppIds, MaxInitLog)
    /\ totalDownload = EmptyCollection
    /\ isConnected = [p \in Procs |-> FALSE]
    /\ task = [t \in Tasks |->
                 IF t \in StartupTasks
                 THEN [IdleTask EXCEPT !.pc = "findOne(counter)", !.proc = t[2],
                                       !.route = "startup"]
                 ELSE IdleTask]
    /\ outages = 0

\* ---------------------------------------------------------------- control
\* Mutant: the track handlers increment without appending the record first.
AfterConnect_NoAppend(route) ==
    CASE route = "startup" -> "done"
      [] route = "GET /totaldownloads" -> "find"
      [] route = "GET /totaldownloads/:appId" -> "findOne"
      [] route = "POST /totaldownloads/:appId" -> "findOneAndUpdate(appId)"
      [] OTHER -> "findOneAndUpdate(counter)"

\* Where a task continues once its call of connectToDatabase has returned.
AfterConnect(route) ==
    CASE route = "startup" -> "done"
      [] route = "GET /totaldownloads" -> "find"
      [] route = "GET /totaldownloads/:appId" -> "findOne"
      [] OTHER -> "insertOne"

\* Mutant: POST /totaldownloads copies the appId handler and increments the
\* counter of its (undefined) appId as well.
AfterInsert_AlwaysApp(route) == "findOneAndUpdate(appId)"

\* Mutant: the handler does not await connectToDatabase().
EntryPc_NoConnect(connected, route) == AfterConnect(route)

\* Where a handler's first await is: inside connectToDatabase, unless
\* isConnected makes it return at once.
EntryPc(connected, route) ==
    IF connected THEN AfterConnect(route) ELSE "findOne(counter)"

\* The increment that follows the append of the record.
AfterInsert(route) ==
    IF route = "POST /totaldownloads/:appId"
    THEN "findOneAndUpdate(appId)" ELSE "findOneAndUpdate(counter)"

\* The task once its handler has ended: its locals are gone.
Ended(r, pc) == [r EXCEPT !.pc = pc, !.proc = 0, !.existingCount = 0, !.result = 0]

\* The task record after res.json(...) / res.status(...).json(...).
Respond(r, status, body) == [Ended(r, "done") EXCEPT !.status = status, !.body = body]

\* Mutant: the handler's catch block reports success.
Caught_ReportsSuccess(r) ==
    IF r.route = "startup" THEN Ended(r, "rejected") ELSE Respond(r, 200, <<r.result>>)

\* The catch block a rejected await reaches: the startup call logs the error
\* (.catch(console.error)), a handler answers 500.
Caught(r) ==
    IF r.route = "startup" THEN Ended(r, "rejected") ELSE Respond(r, 500, <<>>)

\* connectToDatabase returns: isConnected is set and the caller goes on.
Connected(r) ==
    IF r.route = "startup" THEN Ended(r, "done")
    ELSE [r EXCEPT !.pc = AfterConnect(r.route), !.existingCount = 0]

\* The positions of connectToDatabase.
ConnectPcs == {"findOne(counter)", "countDocuments", "insertOne(counter)"}
\* The awaited storage operations, by position.
StoragePcs == ConnectPcs \cup {"find", "findOne", "insertOne",
                               "findOneAndUpdate(appId)", "findOneAndUpdate(counter)"}

InFlight(t) == task[t].pc \in StoragePcs

\* ---------------------------------------------------------------- actions
\* A request arrives at process p: the handler runs up to the first await,
\* which is inside connectToDatabase unless isConnected is already set.
\* Requests take the slots in order (the slots are interchangeable), and the
\* first request goes to the first process (the processes are interchangeable:
\* every behaviour has a mirror image with the process names swapped).
Arrive(t, p, route, appId) ==
    /\ t \in RequestTasks
    /\ task[t].pc = "idle"
    /\ \A i \in Reqs : i < t[2] => task[<<"req", i>>].pc # "idle"
    /\ t[2] = 1 => \A q \in Procs : p <= q
    /\ task' = [task EXCEPT ![t] =
                  [IdleTask EXCEPT !.proc = p, !.route = route,
                       !.appId = IF HasAppId(route) THEN appId ELSE NoApp,
                       !.pc = EntryPc(isConnected[p], route)]]
    /\ UNCHANGED <<downloadInfo, totalDownload, isConnected, outages>>

\* await client.connect();
\* const counterDoc = await totalDownloadCollection.findOne({_id: "counter"});
\* when found, connectToDatabase sets isConnected and returns.
FindCounter(t) ==
    /\ task[t].pc = "findOne(counter)"
    /\ IF Present(GLOBAL)
       THEN /\ isConnected' = [isConnected EXCEPT ![task[t].proc] = TRUE]
            /\ task' = [task EXCEPT ![t] = Connected(task[t])]
       ELSE /\ task' = [task EXCEPT ![t].pc = "countDocuments"]
            /\ UNCHANGED isConnected
    /\ UNCHANGED <<downloadInfo, totalDownload, outages>>

\* const existingCount = await downloadInfoCollection.countDocuments();
CountDocuments(t) ==
    /\ task[t].pc = "countDocuments"
    /\ task' = [task EXCEPT ![t].pc = "insertOne(counter)",
                            ![t].existingCount = existingCount]
    /\ UNCHANGED <<downloadInfo, totalDownload, isConnected, outages>>

\* await totalDownloadCollection.insertOne({_id: "counter", count: existingCount});
\* a duplicate key error is rethrown by connectToDatabase's catch.
InsertCounter(t) ==
    /\ task[t].pc = "insertOne(counter)"
    /\ IF DuplicateKey(GLOBAL)
       THEN /\ task' = [task EXCEPT ![t] = Caught(task[t])]
            /\ UNCHANGED <<totalDownload, isConnected>>
       ELSE /\ totalDownload' = WithDoc(GLOBAL, task[t].existingCount)
            /\ isConnected' = [isConnected EXCEPT ![task[t].proc] = TRUE]
            /\ task' = [task EXCEPT ![t] =
                          Connected([task[t] EXCEPT !.writes = @ \cup {"seed"}])]
    /\ UNCHANGED <<downloadInfo, outages>>

\* GET /totaldownloads: find({_id: {$ne: "counter"}}).toArray(), res.json
GetAll(t) ==
    /\ task[t].pc = "find"
    /\ task' = [task EXCEPT ![t] = Respond(task[t], 200, downloadCounts)]
    /\ UNCHANGED <<downloadInfo, totalDownload, isConnected, outages>>

\* GET /totaldownloads/:appId: findOne({_id: appId}), res.json
GetOne(t) ==
    /\ task[t].pc = "findOne"
    /\ task' = [task EXCEPT ![t] =
                  Respond(task[t], 200, <<totalDownloadCount(task[t].appId)>>)]
    /\ UNCHANGED <<downloadInfo, totalDownload, isConnected, outages>>

\* POST: await downloadInfoCollection.insertOne({appId, userAgent, ip, createdAt})
InsertRecord(t) ==
    /\ task[t].pc = "insertOne"
    /\ downloadInfo' = insertRecord(task[t].appId)
    /\ task' = [task EXCEPT ![t].pc = AfterInsert(task[t].route),
                            ![t].writes = @ \cup {"record"}]
    /\ UNCHANGED <<totalDownload, isConnected, outages>>

\* POST /totaldownloads/:appId: findOneAndUpdate({_id: appId}, {$inc: {count: 1}},
\* {returnDocument: "after", upsert: true}); result.value is the updated document.
IncrementApp(t) ==
    /\ task[t].pc = "findOneAndUpdate(appId)"
    /\ totalDownload' = IncUpsert(task[t].appId)
    /\ task' = [task EXCEPT ![t].pc = "findOneAndUpdate(counter)",
                            ![t].result = resultValue(task[t].appId),
                            ![t].writes = @ \cup {"appCounter"}]
    /\ UNCHANGED <<downloadInfo, isConnected, outages>>

\* POST /totaldownloads/:appId: findOneAndUpdate({_id: "counter"}, {$inc: {count: 1}},
\* {upsert: true}), then res.json({success: true, totalDownloadCount: result.value.count})
IncrementGlobalUpsert(t) ==
    /\ task[t].pc = "findOneAndUpdate(counter)"
    /\ task[t].route = "POST /totaldownloads/:appId"
    /\ totalDownload' = IncUpsert(GLOBAL)
    /\ task' = [task EXCEPT ![t] =
                  Respond([task[t] EXCEPT !.writes = @ \cup {"globalCounter"}],
                          200, <<task[t].result>>)]
    /\ UNCHANGED <<downloadInfo, isConnected, outages>>

\* POST /totaldownloads: findOneAndUpdate({_id: "counter"}, {$inc: {count: 1}},
\* {returnDocument: "after"}), then res.json(... result.value.count): without
\* upsert an absent counter gives result.value null and the read of .count throws.
IncrementGlobal(t) ==
    /\ task[t].pc = "findOneAndUpdate(counter)"
    /\ task[t].route = "POST /totaldownloads"
    /\ totalDownload' = IncNoUpsert(GLOBAL)
    /\ task' = [task EXCEPT ![t] =
                  IF Present(GLOBAL)
                  THEN Respond([task[t] EXCEPT !.writes = @ \cup {"globalCounter"}],
                               200, <<totalDownload'[GLOBAL]>>)
                  ELSE Caught(task[t])]
    /\ UNCHANGED <<downloadInfo, isConnected, outages>>

\* The store is unreachable: the awaited operation rejects, nothing is written,
\* and control passes to the catch block.
StorageFails(t) ==
    /\ task[t].pc \in StoragePcs
    /\ outages < MaxOutages
    /\ outages' = outages + 1
    /\ task' = [task EXCEPT ![t] = Caught(task[t])]
    /\ UNCHANGED <<downloadInfo, totalDownload, isConnected>>

Next ==
    \/ \E t \in RequestTasks, p \in Procs, route \in Routes, appId \in AppIds :
          Arrive(t, p, route, appId)
    \/ \E t \in Tasks : FindCounter(t)
    \/ \E t \in Tasks : CountDocuments(t)
    \/ \E t \in Tasks : InsertCounter(t)
    \/ \E t \in Tasks : GetAll(t)
    \/ \E t \in Tasks : GetOne(t)
    \/ \E t \in Tasks : InsertRecord(t)
    \/ \E t \in Tasks : IncrementApp(t)
    \/ \E t \in Tasks : IncrementGlobalUpsert(t)
    \/ \E t \in Tasks : IncrementGlobal(t)
    \/ \E t \in Tasks : StorageFails(t)

Spec == Init /\ [][Next]_vars

\* Sequential clients on a reachable store: a request arrives only when no
\* other request is in flight (the startup calls run as before), and no
\* storage operation is rejected by an outage.
ArriveSeq(t, p, route, appId) ==
    /\ \A u \in RequestTasks : ~InFlight(u)
    /\ Arrive(t, p, route, appId)

NextSeq ==
    \/ \E t \in RequestTasks, p \in Procs, route \in Routes, appId \in AppIds :
          ArriveSeq(t, p, route, appId)
    \/ \E t \in Tasks : FindCounter(t)
    \/ \E t \in Tasks : CountDocuments(t)
    \/ \E t \in Tasks : InsertCounter(t)
    \/ \E t \in Tasks : GetAll(t)
    \/ \E t \in Tasks : GetOne(t)
    \/ \E t \in Tasks : InsertRecord(t)
    \/ \E t \in Tasks : IncrementApp(t)
    \/ \E t \in Tasks : IncrementGlobalUpsert(t)
    \/ \E t \in Tasks : IncrementGlobal(t)

SeqSpec == Init /\ [][NextSeq]_vars

\* ---------------------------------------------------------------- vocabulary
TrackApp(t, a) == task[t].route = "POST /totaldownloads/:appId" /\ task[t].appId = a
Track(t) == task[t].route \in {"POST /totaldownloads/:appId", "POST /totaldownloads"}
Succeeded(t) == task[t].pc = "done" /\ task[t].status = 200
Failed(t) == task[t].pc = "rejected" \/ task[t].status = 500
GetApp(t, a) == task[t].route = "GET /totaldownloads/:appId" /\ task[t].appId = a
Wrote(t, w) == w \in task[t].writes
\* The count of counter id, an absent counter counting as 0.
Count(id) == IF id \in DOMAIN totalDownload THEN totalDownload[id] ELSE 0
\* The records the log held before the service started: each task appends at
\* most one record.
InitialRecords == Len(downloadInfo) - Cardinality({t \in Tasks : Wrote(t, "record")})
Get(t) == task[t].route \in {"GET /totaldownloads", "GET /totaldownloads/:appId"}
GetAllRoute(t) == task[t].route = "GET /totaldownloads"
\* The application ids for which a track request has completed its
\* application-counter increment.
TrackedIds == {a \in AppIds : \E t \in RequestTasks : TrackApp(t, a) /\ Wrote(t, "appCounter")}
\* The task takes this step.
Steps(t) == task'[t] # task[t]
\* Initialization has finished and nothing is in flight.
Quiescent == (\A t \in Tasks : ~InFlight(t)) /\ (\E p \in Procs : isConnected[p])
\* No awaited storage operation has been rejected (outage or duplicate key).
NoStorageFailure == outages = 0 /\ \A t \in Tasks : ~Failed(t)

TypeOK ==
    /\ downloadInfo \in Seq(AppIds \cup {NoApp})
    /\ DOMAIN totalDownload \subseteq AppIds
    /\ \A x \in DOMAIN totalDownload : totalDownload[x] \in Nat
    /\ isConnected \in [Procs -> BOOLEAN]
    /\ outages \in 0..MaxOutages

\* ---------------------------------------------------------------- claims

\* C1: no lost updates.  For every application id a, once every POST
\* /totaldownloads/a request that has arrived (N of them, interleaved in any
\* way with each other and with everything else) has completed and none of
\* them failed, counter a holds exactly N (it was absent, counting as 0,
\* before the first of them).
C1_NoLostUpdates ==
    \A a \in Applications :
        (\A t \in RequestTasks : TrackApp(t, a) => Succeeded(t))
        => Count(a) = Cardinality({t \in RequestTasks : TrackApp(t, a)})

\* C1 witness: two POST /totaldownloads/a requests overlapped (the one that
\* arrived second incremented first) and both succeeded.
C1_Witness ==
    /\ TrackApp(<<"req", 1>>, "a") /\ Succeeded(<<"req", 1>>)
    /\ TrackApp(<<"req", 2>>, "a") /\ Succeeded(<<"req", 2>>)
    /\ task[<<"req", 1>>].body = <<2>>
    /\ task[<<"req", 2>>].body = <<1>>

\* C2 (as claimed): in every quiescent state reached without a failed storage
\* operation the global counter equals the number of records of the log.
C2_GlobalEqualsLog ==
    (Quiescent /\ NoStorageFailure) => Count(GLOBAL) = Len(downloadInfo)

\* C3 (as claimed): in every quiescent state reached without a failed storage
\* operation, counter a (0 if absent) equals the number of log records whose
\* appId is a, for every application id a.
C3_AppEqualsLog ==
    (Quiescent /\ NoStorageFailure) =>
        \A a \in Applications : Count(a) = CountApp(downloadInfo, a)

\* C4: concurrent initialization is safe.  At most one connectToDatabase call
\* creates the global counter, and exactly one once the startup calls have
\* ended with the store reachable; once present it never becomes absent; and
\* an insertOne of the seed that finds it present is rejected and leaves the
\* collection as it is (no second seed, no overwrite).
C4_ConcurrentInitSafe ==
    [][ /\ Cardinality({t \in Tasks : "seed" \in task'[t].writes}) <= 1
        /\ (outages' = 0 /\ \A t \in StartupTasks : ~InFlight(t)')
              => Cardinality({t \in Tasks : "seed" \in task'[t].writes}) = 1
        /\ Present(GLOBAL) => Present(GLOBAL)'
        /\ \A t \in Tasks :
              (task[t].pc = "insertOne(counter)" /\ Steps(t) /\ Present(GLOBAL))
              => (totalDownload' = totalDownload /\ Failed(t)') ]_vars

\* C4 witness: with the store reachable throughout, one call has created the
\* counter and a concurrent one has had its insert rejected.
C4_Witness ==
    /\ outages = 0
    /\ \E t1, t2 \in Tasks : "seed" \in task[t1].writes /\ Failed(t2)

\* C5: initialization seeds once and is idempotent.  The step that creates the
\* global counter gives it the number of records the log holds, and every
\* step of connectToDatabase taken while the counter is present leaves every
\* count unchanged.
C5_SeedOnceIdempotent ==
    [][ /\ (~Present(GLOBAL) /\ Present(GLOBAL)')
              => totalDownload'[GLOBAL] = Len(downloadInfo)
        /\ \A t \in Tasks :
              (task[t].pc \in ConnectPcs /\ Steps(t) /\ Present(GLOBAL))
              => totalDownload' = totalDownload ]_vars

\* C5 witness: the counter was seeded from a non-empty log, a track request has
\* incremented it since, and another process runs initialization again.
C5_Witness ==
    /\ Present(GLOBAL) /\ totalDownload[GLOBAL] >= 2
    /\ \E t \in RequestTasks : Track(t) /\ Succeeded(t)
    /\ \E t \in Tasks : "seed" \in task[t].writes
    /\ \E t \in StartupTasks : task[t].pc = "findOne(counter)"
    /\ Len(downloadInfo) = totalDownload[GLOBAL]

\* C6: sequential track round trip.  With sequential clients, for every
\* application id a (no counter exists for it before its first request) the
\* k-th successful POST /totaldownloads/a answers totalDownloadCount = k, and
\* when these are the only requests so far the global counter stands at its
\* seed (the records the log held at the start) plus k.
C6_SequentialRoundTrip ==
    \A a \in Applications :
        /\ \A t \in RequestTasks :
              (TrackApp(t, a) /\ Succeeded(t)) =>
                 task[t].body = <<Cardinality({u \in RequestTasks :
                                     u[2] <= t[2] /\ TrackApp(u, a) /\ Succeeded(u)})>>
        /\ (/\ Present(GLOBAL)
            /\ \A t \in RequestTasks :
                  task[t].pc = "idle" \/ (TrackApp(t, a) /\ ~InFlight(t)))
           => totalDownload[GLOBAL] = InitialRecords +
                 Cardinality({t \in RequestTasks : TrackApp(t, a) /\ Succeeded(t)})

\* C6 witness: two sequential POST /totaldownloads/a requests answered 1 and 2
\* on a log that held a record before, and the global counter grew by two.
C6_Witness ==
    /\ TrackApp(<<"req", 1>>, "a") /\ Succeeded(<<"req", 1>>)
    /\ TrackApp(<<"req", 2>>, "a") /\ Succeeded(<<"req", 2>>)
    /\ task[<<"req", 1>>].body = <<1>> /\ task[<<"req", 2>>].body = <<2>>
    /\ InitialRecords = 1 /\ totalDownload[GLOBAL] = 3

\* C7: a POST /totaldownloads request (no appId) leaves every
\* per-application counter as it is and creates none; its append adds one
\* record without appId, its increment adds 1 to the global counter, and a
\* successful request has done exactly these two writes (besides, possibly,
\* the seeding of the global counter by its connectToDatabase call).
C7_UnscopedTrackFrame ==
    [][ \A t \in RequestTasks :
          (task[t].route = "POST /totaldownloads" /\ Steps(t)) =>
             /\ downloadCounts' = downloadCounts
             /\ \/ downloadInfo' = downloadInfo
                \/ (downloadInfo' = Append(downloadInfo, NoApp)
                    /\ totalDownload' = totalDownload)
             /\ (totalDownload' # totalDownload /\ Present(GLOBAL))
                  => totalDownload'[GLOBAL] = totalDownload[GLOBAL] + 1
             /\ Succeeded(t)' =>
                  task'[t].writes \ {"seed"} = {"record", "globalCounter"} ]_vars

\* C7 witness: a POST /totaldownloads request succeeded after counter a had
\* been created and incremented by a POST /totaldownloads/a request.
C7_Witness ==
    \E t, u \in RequestTasks :
        /\ task[t].route = "POST /totaldownloads" /\ Succeeded(t)
        /\ TrackApp(u, "a") /\ Succeeded(u)
        /\ task[t].body = <<totalDownload[GLOBAL]>>
        /\ Present("a") /\ totalDownload["a"] = 1

\* C8: a track failure is never reported as success and is not rolled back.
\* When an increment of a track request is rejected after its append, the
\* request is answered 500 and the step changes neither the log nor any
\* counter; only a request that has appended and incremented everything
\* answers 200; and the writes of every request, failed ones included, stay:
\* the log holds a record for each append and counter a counts each
\* increment of a.
C8_FailureNotSuccessNotRolledBack ==
    [][ /\ \A t \in RequestTasks :
              (/\ Track(t) /\ Steps(t)
               /\ task[t].pc \in {"findOneAndUpdate(appId)", "findOneAndUpdate(counter)"}
               /\ task'[t].writes = task[t].writes)
              => /\ task'[t].pc = "done" /\ task'[t].status = 500
                 /\ downloadInfo' = downloadInfo
                 /\ totalDownload' = totalDownload
        /\ \A t \in RequestTasks :
              (Track(t)' /\ Succeeded(t)') =>
                 /\ {"record", "globalCounter"} \subseteq task'[t].writes
                 /\ HasAppId(task'[t].route) => "appCounter" \in task'[t].writes
        /\ \A a \in Applications :
              /\ Count(a)' = Cardinality({t \in RequestTasks :
                                TrackApp(t, a)' /\ Wrote(t, "appCounter")'})
              /\ CountApp(downloadInfo', a) >=
                    Cardinality({t \in RequestTasks :
                                TrackApp(t, a)' /\ Wrote(t, "record")'}) ]_vars

\* C8 witness: a POST /totaldownloads/a request appended its record and
\* incremented counter a, its global increment was rejected, and it answered
\* 500 with the record and the increment of a still in place.
C8_Witness ==
    \E t \in RequestTasks :
        /\ TrackApp(t, "a") /\ task[t].pc = "done" /\ task[t].status = 500
        /\ task[t].writes = {"record", "appCounter"}
        /\ Count("a") = 1
        /\ CountApp(downloadInfo, "a") = 1 + CountApp(SubSeq(downloadInfo, 1, InitialRecords), "a")

\* C9 (as claimed): a track request that ended without appending its record
\* (the append or the connect step before it failed) answered 500 and wrote
\* nothing: it added no record and neither incremented nor created a counter.
C9_FailedAppendNoWrite ==
    \A t \in RequestTasks :
        (Track(t) /\ task[t].pc = "done" /\ ~Wrote(t, "record"))
        => (task[t].status = 500 /\ task[t].writes = {})

\* C9 (amended): a track request that ended without appending its record
\* answered 500, added no record and incremented no counter; the only write
\* it may have made is the creation of the absent global counter by its own
\* connectToDatabase call.
C9_FailedAppendOnlySeed ==
    \A t \in RequestTasks :
        (Track(t) /\ task[t].pc = "done" /\ ~Wrote(t, "record"))
        => (task[t].status = 500 /\ task[t].writes \subseteq {"seed"})

\* C9 witness: the append of a track request was rejected by an outage after
\* its connectToDatabase call had created the global counter.
C9_Witness ==
    \E t \in RequestTasks :
        /\ Track(t) /\ task[t].pc = "done" /\ task[t].status = 500
        /\ task[t].writes = {"seed"}
        /\ outages = 1

\* C10: as long as no POST /totaldownloads/a request has incremented counter a
\* (a an application id), every GET /totaldownloads/a is answered
\* totalDownloadCount 0 and counter a stays absent; and a POST
\* /totaldownloads/a that is the only one to have incremented a answers 1,
\* whatever GETs came before it.
C10_GetUnknownApp ==
    \A a \in Applications :
        /\ (\A t \in RequestTasks : ~(TrackApp(t, a) /\ Wrote(t, "appCounter")))
           => /\ ~Present(a)
              /\ \A t \in RequestTasks :
                    (GetApp(t, a) /\ Succeeded(t)) => task[t].body = <<0>>
        /\ \A t \in RequestTasks :
              (/\ TrackApp(t, a) /\ Succeeded(t)
               /\ \A u \in RequestTasks \ {t} :
                     ~(TrackApp(u, a) /\ Wrote(u, "appCounter")))
              => task[t].body = <<1>>

\* C10 witness: GET /totaldownloads/a answered 0 and counter a is still absent
\* while the first POST /totaldownloads/a is about to increment it.
C10_Witness ==
    /\ GetApp(<<"req", 1>>, "a") /\ Succeeded(<<"req", 1>>)
    /\ task[<<"req", 1>>].body = <<0>>
    /\ ~Present("a")
    /\ TrackApp(<<"req", 2>>, "a")
    /\ task[<<"req", 2>>].pc = "findOneAndUpdate(appId)"

\* C11 (as claimed): reads have no side effects.  No GET request, in any state
\* and under any interleaving, performs a write: no step of a GET handler
\* changes the log or any counter, the global one included.
C11_ReadsWriteNothing ==
    \A t \in RequestTasks : Get(t) => task[t].writes = {}

\* C12: the mapping GET /totaldownloads returns never has the reserved id
\* "counter" as a key and has only keys for which a track request has
\* completed its application-counter increment; and in every state the
\* mapping the route would return has exactly the non-reserved ids so
\* tracked as its keys.
C12_GetAllKeys ==
    /\ \A t \in RequestTasks :
          (GetAllRoute(t) /\ Succeeded(t)) =>
             /\ GLOBAL \notin DOMAIN task[t].body
             /\ DOMAIN task[t].body \subseteq TrackedIds
    /\ DOMAIN downloadCounts = TrackedIds \ {GLOBAL}

\* C12 witness: GET /totaldownloads answered a mapping whose only key is a,
\* after a POST /totaldownloads/a incremented counter a, while the global
\* counter exists in the same collection.
C12_Witness ==
    \E t, u \in RequestTasks :
        /\ GetAllRoute(t) /\ Succeeded(t)
        /\ DOMAIN task[t].body = {"a"}
        /\ Present(GLOBAL)
        /\ TrackApp(u, "a") /\ Wrote(u, "appCounter")

\* C13: life cycle of the global counter.  It is created only by the
\* insertOne of connectToDatabase, with the log's record count as its value
\* (never by the upsert of a track request's increment); once present it
\* stays present, and every step leaves its count as it is or adds exactly 1,
\* the latter only in an increment step of a track request.
C13_GlobalLifecycle ==
    [][ /\ (~Present(GLOBAL) /\ Present(GLOBAL)') =>
              /\ totalDownload'[GLOBAL] = Len(downloadInfo)
              /\ \E t \in Tasks : /\ task[t].pc = "insertOne(counter)"
                                   /\ ~Wrote(t, "seed") /\ Wrote(t, "seed")'
        /\ Present(GLOBAL) =>
              /\ Present(GLOBAL)'
              /\ \/ totalDownload'[GLOBAL] = totalDownload[GLOBAL]
                 \/ /\ totalDownload'[GLOBAL] = totalDownload[GLOBAL] + 1
                    /\ \E t \in RequestTasks :
                          /\ Track(t) /\ Steps(t)
                          /\ task[t].pc \in {"findOneAndUpdate(appId)",
                                              "findOneAndUpdate(counter)"} ]_vars

\* C13 witness: the counter was seeded with 1 from a log of one record and
\* two track requests have each added 1 to it.
C13_Witness ==
    /\ InitialRecords = 1
    /\ \E t \in Tasks : Wrote(t, "seed")
    /\ Cardinality({t \in RequestTasks : Wrote(t, "globalCounter")}) = 2
    /\ Present(GLOBAL) /\ totalDownload[GLOBAL] = 3

\* C14 (as claimed): counters never run ahead of the log.  In every reachable
\* state the global counter is at most the number of log records and each
\* per-application counter is at most the number of log records carrying
\* that appId.
C14_CountersBoundedByLog ==
    /\ Count(GLOBAL) <= Len(downloadInfo)
    /\ \A a \in Applications : Count(a) <= CountApp(downloadInfo, a)

\* C15: returned counts are unique under concurrency.  Two successful POST
\* /totaldownloads/a requests never report the same totalDownloadCount, in
\* any interleaving; when all N requests for a have succeeded (counter a
\* absent before them) their responses are exactly 1..N; and two successful
\* POST /totaldownloads requests never report the same global count.
C15_DistinctResponses ==
    /\ \A a \in Applications :
          /\ \A t, u \in RequestTasks :
                (/\ t # u
                 /\ TrackApp(t, a) /\ Succeeded(t)
                 /\ TrackApp(u, a) /\ Succeeded(u))
                => task[t].body # task[u].body
          /\ (\A t \in RequestTasks : TrackApp(t, a) => Succeeded(t))
             => {task[t].body[1] : t \in {u \in RequestTasks : TrackApp(u, a)}}
                  = 1..Cardinality({t \in RequestTasks : TrackApp(t, a)})
    /\ \A t, u \in RequestTasks :
          (/\ t # u
           /\ task[t].route = "POST /totaldownloads" /\ Succeeded(t)
           /\ task[u].route = "POST /totaldownloads" /\ Succeeded(u))
          => task[t].body # task[u].body

\* C15 witness: two overlapping POST /totaldownloads/a requests (the second to
\* arrive incremented first) answered 2 and 1, on a log that held one record.
C15_Witness ==
    /\ InitialRecords = 1
    /\ \A t \in RequestTasks : TrackApp(t, "a") /\ Succeeded(t)
    /\ task[<<"req", 1>>].body[1] > task[<<"req", 2>>].body[1]
    /\ Count(GLOBAL) = 3

\* C16 (as claimed): an error response implies a storage outage.  As long as
\* no storage operation has been rejected by an outage, no request has been
\* answered 500.
C16_ErrorImpliesOutage ==
    outages = 0 => \A t \in RequestTasks : task[t].status # 500

\* C17: the log is append-only and grows by one per track.  Every step leaves
\* the records already in the log in place and unchanged; the append step of
\* a track request adds exactly one record, carrying the request's appId,
\* also when the log already holds an identical record (no deduplication);
\* and no other step changes the log.
C17_AppendOnly ==
    [][ /\ Len(downloadInfo') >= Len(downloadInfo)
        /\ SubSeq(downloadInfo', 1, Len(downloadInfo)) = downloadInfo
        /\ \A t \in Tasks :
              (task[t].pc = "insertOne" /\ Steps(t) /\ Wrote(t, "record")')
              => downloadInfo' = Append(downloadInfo, task[t].appId)
        /\ (\A t \in Tasks : ~(task[t].pc = "insertOne" /\ Steps(t)
                                  /\ Wrote(t, "record")'))
              => downloadInfo' = downloadInfo ]_vars

\* C17 witness: the same POST /totaldownloads/a was sent twice (a retry): the
\* log holds a record for each and both counters were incremented twice.
C17_Witness ==
    /\ InitialRecords = 0
    /\ downloadInfo = <<"a", "a">>
    /\ \A t \in RequestTasks : TrackApp(t, "a") /\ Succeeded(t)
    /\ Count("a") = 2 /\ Count(GLOBAL) = 2

====
